---- MODULE Spec2Model ----
(***************************************************************************)
(* EncoderDecoderModel (nnsum/seq2seq/encoder_decoder_model.py): the       *)
(* orchestration of one encoder, one decoder and a beam search.            *)
(*                                                                         *)
(* A tensor is a sequence (1-based in TLA+) holding the values the Python  *)
(* code holds; an index tensor holds 0-based positions exactly as torch    *)
(* does, so gathering t[idx] reads t[idx[j] + 1].  Every public method is   *)
(* one action: it is called in state pc = "idle" with arguments drawn from *)
(* small sets, runs to completion, and leaves its arguments in `op`, the   *)
(* calls it made to its collaborators (with what they returned) in `calls` *)
(* and its outcome (a value or a raised exception) in `ret`.               *)
(***************************************************************************)
EXTENDS Integers, Sequences, FiniteSets, TLC

VARIABLES pc, op, ret, calls, locals

vars == <<pc, op, ret, calls, locals>>

(* ------------------------------ bounds --------------------------------- *)

MaxBatch == 3

MaxSrcLen == 2

MaxSteps == 2

(* --------------------------- vocabularies ------------------------------ *)

\* decoder.embedding_context.vocab: the output vocabulary's special indices.
pad_index == 0

unknown_index == 1

TgtVocab == {pad_index, unknown_index, 2}

(* ------------------------- tensor primitives --------------------------- *)

Range(n) == 0 .. (n - 1)

At(t, i) == t[i + 1]

\* t[idx] for an index tensor idx: row j of the result is row idx[j] of t.
Gather(t, idx) == [j \in 1 .. Len(idx) |-> At(t, idx[j])]

\* t[:, idx]: the same gather along the second dimension.
GatherDim1(t, idx) == [k \in 1 .. Len(t) |-> Gather(t[k], idx)]

RECURSIVE SumSeq(_)
SumSeq(s) == IF Len(s) = 0 THEN 0 ELSE Head(s) + SumSeq(Tail(s))

Flatten(rows) == [k \in 1 .. Len(rows) |-> SumSeq(rows[k])]

Permutations0(n) ==
    {p \in [1 .. n -> Range(n)] : \A j, k \in 1 .. n : j # k => p[j] # p[k]}

\* torch.sort(v, descending)[1]: every index tensor that orders v; torch.sort
\* is not stable, so equal values may come out in either order.
TorchSortIndices(v, descending) ==
    {p \in Permutations0(Len(v)) :
        \A j \in 1 .. (Len(v) - 1) :
            IF descending
            THEN At(v, p[j]) >= At(v, p[j + 1])
            ELSE At(v, p[j]) <= At(v, p[j + 1])}

\* torch.all(lengths[:-1] >= lengths[1:])
NonIncreasing(v) == \A j \in 1 .. (Len(v) - 1) : v[j] >= v[j + 1]

(* ------------------------------ batches -------------------------------- *)

\* A source row of valid length l: MaxSrcLen token ids, padded with 0; w
\* selects the words.
SourceRow(l, w) ==
    [t \in 1 .. MaxSrcLen |-> IF t <= l THEN w * MaxSrcLen + t ELSE 0]

SourceLengths == UNION {[1 .. n -> 1 .. MaxSrcLen] : n \in 1 .. MaxBatch}

\* The batch of the given source lengths; no two of its rows are equal.
SourceBatch(lengths) ==
    [source_lengths |-> lengths,
     source_features |->
         [tokens |-> [b \in 1 .. Len(lengths) |-> SourceRow(lengths[b], b - 1)]]]

Batches == {SourceBatch(lengths) : lengths \in SourceLengths}

BatchSize(inputs) == Len(inputs.source_lengths)

(* ------------------------------ outcomes ------------------------------- *)

Returned(v) == [raised |-> "None", value |-> v]

Raised(e, msg) == [raised |-> e, message |-> msg]

Outcome(r, c, l) == [ret |-> r, calls |-> c, locals |-> l]

NoLocals == [none |-> TRUE]

(* ---------------------------- _sort_inputs ----------------------------- *)

\* Variant: sorted_order itself returned as inv_order.
inv_order_is_sorted_order(sorted_order) == sorted_order

\* line 100: inv_order = torch.sort(sorted_order)[1]
inv_order_of(sorted_order) ==
    CHOOSE r \in TorchSortIndices(sorted_order, FALSE) : TRUE

SortedFeatures(source_features, sorted_order) ==
    [feat \in DOMAIN source_features |->
        Gather(source_features[feat], sorted_order)]

\* The possible results <<new_inputs, inv_order>> of _sort_inputs(inputs).
_sort_inputs(inputs) ==
    {<<[source_lengths |-> Gather(inputs.source_lengths, sorted_order),
        source_features |->
            SortedFeatures(inputs.source_features, sorted_order)],
       inv_order_of(sorted_order)>> :
        sorted_order \in TorchSortIndices(inputs.source_lengths, TRUE)}

SortInputs ==
    /\ pc = "idle"
    /\ \E inputs \in Batches :
        \E r \in _sort_inputs(inputs) :
            /\ op' = [name |-> "_sort_inputs", inputs |-> inputs]
            /\ ret' = Returned(r)
            /\ calls' = <<>>
            /\ locals' = NoLocals
    /\ pc' = "done"

(* --------------------------- collaborators ----------------------------- *)

\* The encoder: per example, a context and one state entry per layer, both
\* determined by the example's row and length (opaque to the orchestrator).
encoder(source_features, source_lengths) ==
    LET n == Len(source_lengths)
        enc(b) == [tokens |-> source_features.tokens[b],
                   len |-> source_lengths[b]]
    IN  <<[b \in 1 .. n |-> [context_of |-> enc(b)]],
          <<[b \in 1 .. n |-> [state_of |-> enc(b), layer |-> 1]],
            [b \in 1 .. n |-> [state_of |-> enc(b), layer |-> 2]]>>>>

EncoderCall(source_features, source_lengths) ==
    [fn |-> "encoder", args |-> <<source_features, source_lengths>>,
     result |-> encoder(source_features, source_lengths)]

\* A decoder: its weights (seed) and whether its per-step states carry an
\* "attention" entry.
Decoders == [seed : {0, 1}, attn : BOOLEAN]

CtxKey(ctx) == ctx.context_of.len + ctx.context_of.tokens[1]

\* The index the decoder emits for one example at one (0-based) step.
DecodeIndex(dec, ctx, step) ==
    (dec.seed + CtxKey(ctx) + step) % Cardinality(TgtVocab)

\* The attention weight (quantised) on source position t at one step.
AttentionWeight(dec, ctx, step, t) ==
    ((CtxKey(ctx) + step) * (t + 1) + dec.seed * t) % 3

\* decoder.decode(context, state, max_steps) -> (output, decoder_states):
\* output is batch x steps, decoder_states has one dict per step whose
\* "attention" entry, when present, is 1 x batch x source_steps.
decoder_decode(dec, context, state, max_steps) ==
    LET n == Len(context)
        output == [b \in 1 .. n |->
                      [s \in 1 .. max_steps |-> DecodeIndex(dec, context[b], s - 1)]]
        attention(s) ==
            <<[b \in 1 .. n |->
                  [t \in 1 .. MaxSrcLen |->
                      AttentionWeight(dec, context[b], s - 1, t - 1)]]>>
        decoder_states ==
            [s \in 1 .. max_steps |->
                IF dec.attn
                THEN [attention |-> attention(s), step |-> s - 1]
                ELSE [step |-> s - 1]]
    IN  <<output, decoder_states>>

DecodeCall(dec, context, state, max_steps) ==
    [fn |-> "decoder.decode", args |-> <<context, state, max_steps>>,
     result |-> decoder_decode(dec, context, state, max_steps)]

\* decoder.embedding_context.convert_index_tensor: index -> surface token of
\* the output vocabulary.
TargetToken(index) == <<"target", index>>

convert_index_tensor(output) ==
    [b \in 1 .. Len(output) |->
        [s \in 1 .. Len(output[b]) |-> TargetToken(output[b][s])]]

\* encoder.embedding_context.named_vocabs["tokens"][tkn_idx]
src_vcb(tkn_idx) == <<"source", tkn_idx>>

\* torch.argmax: the first position holding the maximum.
ArgMax(v) ==
    CHOOSE i \in Range(Len(v)) :
        /\ \A k \in Range(Len(v)) : At(v, k) <= At(v, i)
        /\ \A k \in Range(i) : At(v, k) < At(v, i)

(* ---------------------------- greedy_decode ---------------------------- *)

\* Variant: the attention left in sorted order.
RestoreAttentionSkipped(decoder_states, inv_order) == decoder_states

\* lines 116-119: restore the caller's order in every per-step attention.
RestoreAttention(decoder_states, inv_order) ==
    [s \in 1 .. Len(decoder_states) |->
        IF "attention" \in DOMAIN decoder_states[s]
        THEN [decoder_states[s] EXCEPT
                 !.attention = GatherDim1(@, inv_order)]
        ELSE decoder_states[s]]

\* Variant: the attention of the first step read at every step.
CopyUnknownFirstStep(tokens, output, decoder_states, inputs) ==
    [b \in 1 .. Len(tokens) |->
        [s \in 1 .. Len(tokens[b]) |->
            IF output[b][s] = unknown_index
            THEN LET attention == decoder_states[1].attention[1][b]
                     src == ArgMax(attention)
                     tkn_idx == At(inputs.source_features.tokens[b], src)
                 IN  src_vcb(tkn_idx)
            ELSE tokens[b][s]]]

\* lines 133-143: the tokens after copying source tokens over unknowns.
CopyUnknown(tokens, output, decoder_states, inputs) ==
    [b \in 1 .. Len(tokens) |->
        [s \in 1 .. Len(tokens[b]) |->
            IF output[b][s] = unknown_index
            THEN LET attention == decoder_states[s].attention[1][b]
                     src == ArgMax(attention)
                     tkn_idx == At(inputs.source_features.tokens[b], src)
                 IN  src_vcb(tkn_idx)
            ELSE tokens[b][s]]]

\* lines 129-147, shared by both branches.
GreedyResult(inputs, output, decoder_states, return_tokens, copy_unknown) ==
    IF return_tokens
    THEN LET tokens == convert_index_tensor(output)
         IN  IF copy_unknown /\ "attention" \in DOMAIN decoder_states[1]
             THEN Returned(CopyUnknown(tokens, output, decoder_states, inputs))
             ELSE Returned(tokens)
    ELSE Returned(output)

GreedyUnsorted(orig_inputs, sorted_result, return_tokens, max_steps, copy_unknown, dec) ==
    LET inputs == sorted_result[1]
        inv_order == sorted_result[2]
        e == EncoderCall(inputs.source_features, inputs.source_lengths)
        d == DecodeCall(dec, e.result[1], e.result[2], max_steps)
        output == Gather(d.result[1], inv_order)
        decoder_states == RestoreAttention(d.result[2], inv_order)
    IN  Outcome(GreedyResult(orig_inputs, output, decoder_states,
                             return_tokens, copy_unknown),
                <<e, d>>,
                [output |-> output, decoder_states |-> decoder_states,
                 inv_order |-> inv_order])

GreedySorted(inputs, return_tokens, max_steps, copy_unknown, dec) ==
    LET e == EncoderCall(inputs.source_features, inputs.source_lengths)
        d == DecodeCall(dec, e.result[1], e.result[2], max_steps)
        output == d.result[1]
        decoder_states == d.result[2]
    IN  Outcome(GreedyResult(inputs, output, decoder_states,
                             return_tokens, copy_unknown),
                <<e, d>>,
                [output |-> output, decoder_states |-> decoder_states])

\* The possible outcomes of greedy_decode.
greedy_decode(inputs, sorted, return_tokens, max_steps, copy_unknown, dec) ==
    IF ~sorted
    THEN {GreedyUnsorted(inputs, r, return_tokens, max_steps, copy_unknown, dec) :
             r \in _sort_inputs(inputs)}
    ELSE {GreedySorted(inputs, return_tokens, max_steps, copy_unknown, dec)}

GreedyDecode ==
    /\ pc = "idle"
    /\ \E inputs \in Batches, sorted \in BOOLEAN, return_tokens \in BOOLEAN,
          max_steps \in 1 .. MaxSteps, copy_unknown \in BOOLEAN,
          dec \in Decoders :
        \E o \in greedy_decode(inputs, sorted, return_tokens, max_steps,
                               copy_unknown, dec) :
            /\ op' = [name |-> "greedy_decode", inputs |-> inputs,
                      sorted |-> sorted, return_tokens |-> return_tokens,
                      max_steps |-> max_steps, copy_unknown |-> copy_unknown,
                      dec |-> dec]
            /\ ret' = o.ret
            /\ calls' = o.calls
            /\ locals' = o.locals
    /\ pc' = "done"

(* -------------------------------- decode ------------------------------- *)

\* tuple[idx] for a Python tuple and an index tensor: Tensor.__index__ turns
\* a one-element integer tensor into an int and raises for any other.
TupleIndex(tuple, idx) ==
    IF Len(idx) = 1
    THEN Returned(At(tuple, idx[1]))
    ELSE Raised("TypeError",
                "only integer tensors of a single element can be converted to an index")

\* lines 163-167.  `output` is the decoder's (output, decoder_states) tuple
\* unless the indexing of line 156 picked its first member.
DecodeResult(output, is_tensor, return_tokens) ==
    IF return_tokens
    THEN IF is_tensor
         THEN Returned(convert_index_tensor(output))
         ELSE Raised("TypeError", "convert_index_tensor of a tuple")
    ELSE Returned(output)

DecodeUnsorted(sorted_result, return_tokens, max_steps, dec) ==
    LET inputs == sorted_result[1]
        inv_order == sorted_result[2]
        e == EncoderCall(inputs.source_features, inputs.source_lengths)
        d == DecodeCall(dec, e.result[1], e.result[2], max_steps)
        output == TupleIndex(d.result, inv_order)
    IN  Outcome(IF output.raised = "None"
                THEN DecodeResult(output.value, TRUE, return_tokens)
                ELSE output,
                <<e, d>>,
                [inv_order |-> inv_order])

DecodeSorted(inputs, return_tokens, max_steps, dec) ==
    LET e == EncoderCall(inputs.source_features, inputs.source_lengths)
        d == DecodeCall(dec, e.result[1], e.result[2], max_steps)
    IN  Outcome(DecodeResult(d.result, FALSE, return_tokens), <<e, d>>, NoLocals)

\* The possible outcomes of decode.
decode(inputs, sorted, return_tokens, max_steps, dec) ==
    IF ~sorted
    THEN {DecodeUnsorted(r, return_tokens, max_steps, dec) :
             r \in _sort_inputs(inputs)}
    ELSE {DecodeSorted(inputs, return_tokens, max_steps, dec)}

Decode ==
    /\ pc = "idle"
    /\ \E inputs \in Batches, sorted \in BOOLEAN, return_tokens \in BOOLEAN,
          max_steps \in 1 .. MaxSteps, dec \in Decoders :
        \E o \in decode(inputs, sorted, return_tokens, max_steps, dec) :
            /\ op' = [name |-> "decode", inputs |-> inputs, sorted |-> sorted,
                      return_tokens |-> return_tokens,
                      max_steps |-> max_steps, dec |-> dec]
            /\ ret' = o.ret
            /\ calls' = o.calls
            /\ locals' = o.locals
    /\ pc' = "done"

(* ------------------------------ beam_decode ---------------------------- *)

BeamSizes == {1, 2}

\* BeamSearch(decoder, state, context, beam_size, max_steps, rescoring_func)
\* after search() and sort_by_score(): per example, beam_size candidates
\* (batch x beam x steps) ranked by descending score (batch x beam).
BeamSearch(dec, state, context, beam_size, max_steps) ==
    LET n == Len(context)
    IN  [candidates |->
            [b \in 1 .. n |->
                [k \in 1 .. beam_size |->
                    [s \in 1 .. max_steps |->
                        (DecodeIndex(dec, context[b], s - 1) + k - 1)
                            % Cardinality(TgtVocab)]]],
         scores |->
            [b \in 1 .. n |->
                [k \in 1 .. beam_size |-> 0 - (CtxKey(context[b]) + dec.seed + k)]]]

BeamCall(dec, state, context, beam_size, max_steps) ==
    [fn |-> "BeamSearch", args |-> <<state, context, beam_size, max_steps>>,
     result |-> BeamSearch(dec, state, context, beam_size, max_steps)]

\* convert_index_tensor of the batch x beam x steps candidates.
ConvertCandidates(output) ==
    [b \in 1 .. Len(output) |-> convert_index_tensor(output[b])]

\* lines 196-202.
BeamResult(output, beam, return_tokens, return_scores) ==
    LET out == IF return_tokens THEN ConvertCandidates(output) ELSE output
    IN  IF return_scores THEN Returned(<<out, beam.scores>>) ELSE Returned(out)

BeamUnsorted(sorted_result, beam_size, return_tokens, return_scores, max_steps, dec) ==
    LET inputs == sorted_result[1]
        inv_order == sorted_result[2]
        e == EncoderCall(inputs.source_features, inputs.source_lengths)
        bm == BeamCall(dec, e.result[2], e.result[1], beam_size, max_steps)
        output == Gather(bm.result.candidates, inv_order)
    IN  Outcome(BeamResult(output, bm.result, return_tokens, return_scores),
                <<e, bm>>,
                [inv_order |-> inv_order])

BeamSorted(inputs, beam_size, return_tokens, return_scores, max_steps, dec) ==
    LET e == EncoderCall(inputs.source_features, inputs.source_lengths)
        bm == BeamCall(dec, e.result[2], e.result[1], beam_size, max_steps)
        output == bm.result.candidates
    IN  Outcome(BeamResult(output, bm.result, return_tokens, return_scores),
                <<e, bm>>, NoLocals)

\* The possible outcomes of beam_decode (rescoring_func=None).
beam_decode(inputs, beam_size, sorted, return_tokens, return_scores, max_steps, dec) ==
    IF ~sorted
    THEN {BeamUnsorted(r, beam_size, return_tokens, return_scores,
                       max_steps, dec) : r \in _sort_inputs(inputs)}
    ELSE {BeamSorted(inputs, beam_size, return_tokens, return_scores,
                     max_steps, dec)}

BeamDecode ==
    /\ pc = "idle"
    /\ \E inputs \in Batches, beam_size \in BeamSizes, sorted \in BOOLEAN,
          return_tokens \in BOOLEAN, return_scores \in BOOLEAN,
          max_steps \in 1 .. MaxSteps, dec \in Decoders :
        \E o \in beam_decode(inputs, beam_size, sorted, return_tokens,
                             return_scores, max_steps, dec) :
            /\ op' = [name |-> "beam_decode", inputs |-> inputs,
                      beam_size |-> beam_size, sorted |-> sorted,
                      return_tokens |-> return_tokens,
                      return_scores |-> return_scores,
                      max_steps |-> max_steps, dec |-> dec]
            /\ ret' = o.ret
            /\ calls' = o.calls
            /\ locals' = o.locals
    /\ pc' = "done"

(* ------------------------------- forward ------------------------------- *)

None == [is_none |-> TRUE]

Some(v) == [is_none |-> FALSE, value |-> v]

\* inputs.get(key, default)
Get(inputs, key, default) ==
    IF key \in DOMAIN inputs THEN inputs[key] ELSE default

\* inputs.get("source_mask", None)
GetMask(inputs) ==
    IF "source_mask" \in DOMAIN inputs THEN Some(inputs.source_mask) ELSE None

\* One row of output-vocabulary logits (index v at position v + 1).
LogitRow(dec, ctx, step) ==
    [v \in 1 .. Cardinality(TgtVocab) |->
        ((dec.seed + 1) * (CtxKey(ctx) + step) + v * v) % 3]

\* decoder(target_input_features, context, state, context_mask=mask)
\*   -> (logits, attn, decoder_state): logits is batch x steps x vocabulary,
\* attn["attention"] is steps x batch x source_steps.
decoder_forward(dec, target_input_features, context, state, context_mask) ==
    LET tokens == target_input_features.tokens
        m == Len(tokens)
        steps == Len(tokens[1])
    IN  <<[b \in 1 .. m |-> [s \in 1 .. steps |-> LogitRow(dec, context[b], s - 1)]],
          [attention |->
              [s \in 1 .. steps |->
                  [b \in 1 .. m |->
                      [t \in 1 .. MaxSrcLen |->
                          AttentionWeight(dec, context[b], s - 1, t - 1)]]]],
          [b \in 1 .. m |-> [decoded |-> context[b], steps |-> steps]]>>

DecoderCall(dec, target_input_features, context, state, context_mask) ==
    [fn |-> "decoder",
     args |-> <<target_input_features, context, state, context_mask>>,
     result |-> decoder_forward(dec, target_input_features, context, state,
                                context_mask)]

\* Variant: no assertion.
AssertSortedSkipped(source_lengths) == TRUE

\* lines 24-25: assert torch.all(lengths[:-1] >= lengths[1:])
AssertSorted(source_lengths) == NonIncreasing(source_lengths)

\* Variant: the j-th target paired with the j-th source (cyclically).
RemapBySortedPosition(t, target_source_ids) ==
    [j \in 1 .. Len(target_source_ids) |-> t[((j - 1) % Len(t)) + 1]]

\* lines 32, 36: t[inputs["target_source_ids"]]
Remap(t, target_source_ids) == Gather(t, target_source_ids)

\* The outcome of forward(inputs) with decoder dec.
forward(inputs, dec) ==
    IF ~AssertSorted(inputs.source_lengths)
    THEN Outcome(Raised("AssertionError", ""), <<>>, NoLocals)
    ELSE
        LET e == EncoderCall(inputs.source_features, inputs.source_lengths)
            multi_ref == Get(inputs, "multi_ref", FALSE)
            encoder_context ==
                IF multi_ref
                THEN Remap(e.result[1], inputs.target_source_ids)
                ELSE e.result[1]
            encoder_state ==
                IF multi_ref
                THEN [layer \in 1 .. Len(e.result[2]) |->
                         Remap(e.result[2][layer], inputs.target_source_ids)]
                ELSE e.result[2]
            mask ==
                IF multi_ref /\ ~GetMask(inputs).is_none
                THEN Some(Remap(GetMask(inputs).value, inputs.target_source_ids))
                ELSE GetMask(inputs)
            d == DecoderCall(dec, inputs.target_input_features,
                             encoder_context, encoder_state, mask)
            state == [context_attention |-> d.result[2].attention,
                      decoder_state |-> d.result[3],
                      encoder_state |-> encoder_state,
                      encoder_context |-> encoder_context]
        IN  Outcome(Returned(<<d.result[1], state>>), <<e, d>>, NoLocals)

\* One target input row per target.
TargetInput(m) ==
    [target_input_features |->
        [tokens |-> [b \in 1 .. m |-> [s \in 1 .. MaxSteps |-> 2]]]]

\* source_mask: batch x source_steps, TRUE on the padding.
SourceMask(lengths) ==
    [b \in 1 .. Len(lengths) |-> [t \in 1 .. MaxSrcLen |-> t > lengths[b]]]

TargetSourceIds(n) == UNION {[1 .. m -> Range(n)] : m \in 1 .. MaxBatch}

\* The batch forward is called with: multi_ref absent, False or True (then
\* with target_source_ids), source_mask present or absent.
ForwardBatch(lengths, multi_ref, ids, with_mask) ==
    SourceBatch(lengths)
        @@ TargetInput(IF multi_ref = "True" THEN Len(ids) ELSE Len(lengths))
        @@ (IF with_mask THEN [source_mask |-> SourceMask(lengths)] ELSE <<>>)
        @@ (IF multi_ref = "True"
            THEN [multi_ref |-> TRUE, target_source_ids |-> ids]
            ELSE IF multi_ref = "False"
            THEN [multi_ref |-> FALSE]
            ELSE <<>>)

Forward ==
    /\ pc = "idle"
    /\ \E lengths \in SourceLengths, with_mask \in BOOLEAN,
          multi_ref \in {"absent", "False", "True"} :
        \E ids \in IF multi_ref = "True"
                    THEN TargetSourceIds(Len(lengths))
                    ELSE {<<>>} :
            LET inputs == ForwardBatch(lengths, multi_ref, ids, with_mask)
                dec == [seed |-> 0, attn |-> TRUE]
                o == forward(inputs, dec)
            IN  /\ op' = [name |-> "forward", inputs |-> inputs, dec |-> dec]
                /\ ret' = o.ret
                /\ calls' = o.calls
                /\ locals' = o.locals
    /\ pc' = "done"

(* ------------------------------- xentropy ------------------------------ *)

RECURSIVE Pow2(_)
Pow2(k) == IF k = 0 THEN 1 ELSE 2 * Pow2(k - 1)

RECURSIVE Log2Floor(_)
Log2Floor(x) == IF x < 2 THEN 0 ELSE 1 + Log2Floor(x \div 2)

\* -log_softmax(row)[target] in whole bits: logsumexp(row) - row[target],
\* base 2, the log rounded down.  Never negative.
NegLogLikelihood(row, target) ==
    Log2Floor(SumSeq([v \in 1 .. Len(row) |-> Pow2(row[v])])) - At(row, target)

\* Variant: no ignore_index.
CrossEntropyKeepsPad(logits, target, ignore_index) ==
    [b \in 1 .. Len(target) |->
        [s \in 1 .. Len(target[b]) |->
            NegLogLikelihood(logits[b][s], target[b][s])]]

\* F.cross_entropy(logits.permute(0, 2, 1), target, ignore_index=...,
\* reduction="none"): one loss per (example, step), zero where the target is
\* ignore_index.
cross_entropy(logits, target, ignore_index) ==
    [b \in 1 .. Len(target) |->
        [s \in 1 .. Len(target[b]) |->
            IF target[b][s] = ignore_index
            THEN 0
            ELSE NegLogLikelihood(logits[b][s], target[b][s])]]

\* tensor.t() of a 2-D tensor.
Transpose(t) ==
    [b \in 1 .. Len(t[1]) |-> [s \in 1 .. Len(t) |-> t[s][b]]]

\* tensor.sum() of a 2-D tensor.
SumAll(t) == SumSeq(Flatten(t))

\* The float x / y, kept exact as a fraction.
Divide(x, y) == [num |-> x, den |-> y]

\* Variant: the number of logit positions.
NumTokensByLogits(batch, elem_xent) == Len(elem_xent) * Len(elem_xent[1])

\* line 68: num_tokens = batch["target_lengths"].sum().float()
NumTokens(batch, elem_xent) == SumSeq(batch.target_lengths)

\* Variant: any other reduction taken as "none".
ReduceAnyAsNone(reduction, batch, elem_xent) ==
    IF reduction = "mean"
    THEN Returned(Divide(SumAll(elem_xent), NumTokens(batch, elem_xent)))
    ELSE IF reduction = "sum"
    THEN Returned(SumAll(elem_xent))
    ELSE Returned(elem_xent)

\* lines 67-76.
Reduce(reduction, batch, elem_xent) ==
    IF reduction = "mean"
    THEN Returned(Divide(SumAll(elem_xent), NumTokens(batch, elem_xent)))
    ELSE IF reduction = "sum"
    THEN Returned(SumAll(elem_xent))
    ELSE IF reduction = "none"
    THEN Returned(elem_xent)
    ELSE Raised("Exception", "reduction must be 'mean', 'sum', or 'none'.")

\* The outcome of xentropy(batch, reduction, return_state) with decoder dec.
xentropy(batch, reduction, return_state, dec) ==
    LET f == forward(batch, dec)
    IN  IF f.ret.raised # "None"
        THEN f
        ELSE
            LET logits == f.ret.value[1]
                state == f.ret.value[2]
                elem_xent ==
                    cross_entropy(logits,
                                  Transpose(batch.target_output_features.tokens),
                                  pad_index)
                result == Reduce(reduction, batch, elem_xent)
            IN  Outcome(IF result.raised = "None" /\ return_state
                        THEN Returned(<<result.value, state>>)
                        ELSE result,
                        f.calls,
                        [elem_xent |-> elem_xent])

\* A gold row: k tokens, then padding.
TargetRow(k) ==
    [s \in 1 .. MaxSteps |->
        IF s <= k THEN (IF s % 2 = 1 THEN 2 ELSE unknown_index) ELSE pad_index]

TargetRows == {TargetRow(k) : k \in 0 .. MaxSteps}

NonPadCount(row) ==
    Cardinality({s \in 1 .. Len(row) : row[s] # pad_index})

\* The source side of a loss batch of m examples: equal lengths, or only
\* the last example long (not sorted when m > 1).
LossSourceLengths(m) ==
    {[b \in 1 .. m |-> MaxSrcLen], [b \in 1 .. m |-> 1],
     [b \in 1 .. m |-> IF b = m THEN MaxSrcLen ELSE 1]}

\* target_output_features["tokens"] is steps x batch; target_lengths is
\* either each row's count of non-pad tokens or the padded width.
LossBatch(lengths, rows, padded_width) ==
    SourceBatch(lengths) @@ TargetInput(Len(rows))
        @@ [target_output_features |-> [tokens |-> Transpose(rows)],
            target_lengths |->
                [b \in 1 .. Len(rows) |->
                    IF padded_width THEN MaxSteps ELSE NonPadCount(rows[b])]]

Reductions == {"mean", "sum", "none", "avg"}

Xentropy ==
    /\ pc = "idle"
    /\ \E m \in 1 .. MaxBatch, reduction \in Reductions,
          return_state \in BOOLEAN, padded_width \in BOOLEAN, seed \in {0, 1} :
        \E rows \in [1 .. m -> TargetRows], lengths \in LossSourceLengths(m) :
            LET batch == LossBatch(lengths, rows, padded_width)
                dec == [seed |-> seed, attn |-> TRUE]
                o == xentropy(batch, reduction, return_state, dec)
            IN  /\ op' = [name |-> "xentropy", batch |-> batch,
                          reduction |-> reduction,
                          return_state |-> return_state, dec |-> dec]
                /\ ret' = o.ret
                /\ calls' = o.calls
                /\ locals' = o.locals
    /\ pc' = "done"

(* ------------------------------ the machine ---------------------------- *)

Init ==
    /\ pc = "idle"
    /\ op = [name |-> "none"]
    /\ ret = Returned(<<>>)
    /\ calls = <<>>
    /\ locals = NoLocals

Return ==
    /\ pc = "done"
    /\ pc' = "idle"
    /\ op' = [name |-> "none"]
    /\ ret' = Returned(<<>>)
    /\ calls' = <<>>
    /\ locals' = NoLocals

Next ==
    \/ SortInputs
    \/ GreedyDecode
    \/ Decode
    \/ BeamDecode
    \/ Forward
    \/ Xentropy
    \/ Return

Spec == Init /\ [][Next]_vars

(* ------------------------------- claims -------------------------------- *)

IsSortCall == pc = "done" /\ op.name = "_sort_inputs"

\* C1: for every batch, _sort_inputs returns non-increasing source_lengths,
\* and there is a sorted_order, a permutation of the batch positions, by which
\* both source_lengths and every source feature were gathered, such that
\* gathering a sorted-batch-indexed tensor by inv_order restores the caller's
\* order: sorted[inv_order[i]] is the entry of original position i.
C1_SortRoundTrip ==
    IsSortCall =>
        LET new_inputs == ret.value[1]
            inv_order == ret.value[2]
            n == BatchSize(op.inputs)
        IN  /\ NonIncreasing(new_inputs.source_lengths)
            /\ Len(new_inputs.source_lengths) = n
            /\ \E sorted_order \in Permutations0(n) :
                /\ new_inputs.source_lengths =
                       Gather(op.inputs.source_lengths, sorted_order)
                /\ new_inputs.source_features.tokens =
                       Gather(op.inputs.source_features.tokens, sorted_order)
                /\ inv_order \in Permutations0(n)
                /\ \A i \in Range(n) : At(sorted_order, At(inv_order, i)) = i
            /\ \A i \in Range(n) :
                /\ At(new_inputs.source_lengths, At(inv_order, i)) =
                       At(op.inputs.source_lengths, i)
                /\ At(new_inputs.source_features.tokens, At(inv_order, i)) =
                       At(op.inputs.source_features.tokens, i)

\* C1 witness: a batch of three with equal lengths whose sort is a 3-cycle
\* (inv_order differs from the identity and from its own inverse).
C1_Witness ==
    /\ IsSortCall
    /\ BatchSize(op.inputs) = 3
    /\ \E j \in 1 .. 2 : op.inputs.source_lengths[j] = op.inputs.source_lengths[j + 1]
    /\ ret.value[2] = <<2, 0, 1>>
    /\ ret.value[1].source_features.tokens # op.inputs.source_features.tokens

(* What the collaborators produce for the example the caller placed at      *)
(* (0-based) position i of `inputs`, whatever batch it is run in.           *)
OwnContext(inputs, i) ==
    At(encoder(inputs.source_features, inputs.source_lengths)[1], i)

OwnIndex(inputs, dec, i, s) == DecodeIndex(dec, OwnContext(inputs, i), s)

OwnAttention(inputs, dec, i, s) ==
    [t \in 1 .. MaxSrcLen |->
        AttentionWeight(dec, OwnContext(inputs, i), s, t - 1)]

IsMaxPosition(v, p) == \A k \in Range(Len(v)) : At(v, k) <= At(v, p)

IsGreedyCall == pc = "done" /\ op.name = "greedy_decode"

\* C2: greedy_decode with sorted=False runs the encoder and the decoder on
\* the length-sorted batch and permutes the result back: for every original
\* position i, row i of the output index tensor and column i of every
\* per-step attention are the decoder's row inv_order[i], which is the row of
\* the example the caller placed at position i; with return_tokens=False that
\* output tensor is what is returned.
C2_GreedyRestoresOrder ==
    (IsGreedyCall /\ ~op.sorted) =>
        LET n == BatchSize(op.inputs)
            enc == calls[1]
            dcd == calls[2]
        IN  /\ NonIncreasing(enc.args[2])
            /\ dcd.args[1] = enc.result[1]
            /\ Len(locals.output) = n
            /\ \A i \in Range(n) :
                LET j == At(locals.inv_order, i)
                IN  /\ At(dcd.args[1], j) = OwnContext(op.inputs, i)
                    /\ At(locals.output, i) = At(dcd.result[1], j)
                    /\ \A s \in Range(op.max_steps) :
                        /\ At(At(locals.output, i), s) =
                               OwnIndex(op.inputs, op.dec, i, s)
                        /\ op.dec.attn =>
                            /\ At(At(locals.decoder_states, s).attention[1], i) =
                                   At(At(dcd.result[2], s).attention[1], j)
                            /\ At(At(locals.decoder_states, s).attention[1], i) =
                                   OwnAttention(op.inputs, op.dec, i, s)
            /\ ~op.return_tokens => ret = Returned(locals.output)

\* C2 witness: an unsorted batch of three whose restore is a 3-cycle, with
\* an output row and every step's attention moved by the restore.
C2_Witness ==
    /\ IsGreedyCall /\ ~op.sorted /\ op.dec.attn /\ ~op.return_tokens
    /\ locals.inv_order = <<2, 0, 1>>
    /\ ~NonIncreasing(op.inputs.source_lengths)
    /\ op.max_steps = MaxSteps
    /\ \E i \in 1 .. 3 : calls[2].result[1][i] # ret.value[i]
    /\ \A s \in 1 .. MaxSteps :
           calls[2].result[2][s].attention # locals.decoder_states[s].attention

\* C4: greedy_decode with return_tokens=True and states carrying attention,
\* sorted or not.  With copy_unknown=True the token at (b, s) is the source
\* vocabulary token of the caller's own source row b at the argmax of example
\* b's attention at step s exactly where the output index is the unknown
\* index, and the plain conversion of the output index elsewhere; the output
\* index tensor keeps the decoder's indices; with copy_unknown=False every
\* position, unknown ones included, holds the plain conversion.
C4_CopyUnknown ==
    (IsGreedyCall /\ op.return_tokens /\ op.dec.attn) =>
        LET n == BatchSize(op.inputs)
        IN  /\ ret.raised = "None"
            /\ Len(ret.value) = n
            /\ \A b \in Range(n) : \A s \in Range(op.max_steps) :
                LET index == OwnIndex(op.inputs, op.dec, b, s)
                    attention == OwnAttention(op.inputs, op.dec, b, s)
                    token == At(At(ret.value, b), s)
                    row == At(op.inputs.source_features.tokens, b)
                IN  /\ At(At(locals.output, b), s) = index
                    /\ (op.copy_unknown /\ index = unknown_index) =>
                           \E p \in Range(MaxSrcLen) :
                               /\ IsMaxPosition(attention, p)
                               /\ p = ArgMax(attention)
                               /\ token = src_vcb(At(row, p))
                    /\ (~op.copy_unknown \/ index # unknown_index) =>
                           token = TargetToken(index)

\* C4 witness: an unsorted batch of three, restored by a 3-cycle, in which
\* an unknown at a later step is replaced by the token at a later source
\* position of the caller's row, which is not the token the sorted batch
\* holds at that row and position.
C4_Witness ==
    /\ IsGreedyCall /\ op.return_tokens /\ op.dec.attn /\ op.copy_unknown
    /\ ~op.sorted
    /\ locals.inv_order = <<2, 0, 1>>
    /\ \E b \in Range(3) : \E s \in 1 .. (op.max_steps - 1) :
        /\ At(At(locals.output, b), s) = unknown_index
        /\ ArgMax(OwnAttention(op.inputs, op.dec, b, s)) > 0
        /\ ArgMax(OwnAttention(op.inputs, op.dec, b, s)) #
               ArgMax(OwnAttention(op.inputs, op.dec, b, 0))
        /\ At(At(ret.value, b), s) =
               src_vcb(At(At(op.inputs.source_features.tokens, b),
                          ArgMax(OwnAttention(op.inputs, op.dec, b, s))))
        /\ At(At(ret.value, b), s) #
               src_vcb(At(At(calls[1].args[1].tokens, b),
                          ArgMax(OwnAttention(op.inputs, op.dec, b, s))))

\* C4 second witness: with copy_unknown=False an unknown keeps its
\* placeholder.
C4_WitnessPlaceholder ==
    /\ IsGreedyCall /\ op.return_tokens /\ op.dec.attn /\ ~op.copy_unknown
    /\ \E b \in Range(BatchSize(op.inputs)) : \E s \in Range(op.max_steps) :
        /\ At(At(locals.output, b), s) = unknown_index
        /\ At(At(ret.value, b), s) = TargetToken(unknown_index)

IsDecodeCall == pc = "done" /\ op.name = "decode"

\* C7: decode(sorted=False, return_tokens=False) returns, for every batch,
\* the output index tensor that greedy_decode(sorted=False,
\* return_tokens=False, copy_unknown=False) returns on that batch, whose row
\* i is the decoder's output for the example the caller placed at position i.
C7_DecodeMatchesGreedy ==
    (IsDecodeCall /\ ~op.sorted /\ ~op.return_tokens) =>
        /\ \A g \in greedy_decode(op.inputs, FALSE, FALSE, op.max_steps,
                                   FALSE, op.dec) : ret = g.ret
        /\ ret.raised = "None"
        /\ \A i \in Range(BatchSize(op.inputs)) :
               \A s \in Range(op.max_steps) :
                   At(At(ret.value, i), s) = OwnIndex(op.inputs, op.dec, i, s)

IsBeamCall == pc = "done" /\ op.name = "beam_decode"

\* C3: beam_decode with sorted=False and return_scores=True returns, at
\* every original position i, the candidates and the scores the beam search
\* produced for the example the caller placed at position i.
C3_BeamScoresAligned ==
    (IsBeamCall /\ ~op.sorted /\ op.return_scores) =>
        LET n == BatchSize(op.inputs)
            beam == calls[2].result
            candidates == IF op.return_tokens
                          THEN ConvertCandidates(beam.candidates)
                          ELSE beam.candidates
        IN  \A i \in Range(n) :
                LET j == At(locals.inv_order, i)
                IN  /\ At(calls[2].args[2], j) = OwnContext(op.inputs, i)
                    /\ At(ret.value[1], i) = At(candidates, j)
                    /\ At(ret.value[2], i) = At(beam.scores, j)

IsForwardCall == pc = "done" /\ op.name = "forward"

IsXentropyCall == pc = "done" /\ op.name = "xentropy"

IsTrainCall == IsForwardCall \/ IsXentropyCall

TrainInputs == IF op.name = "forward" THEN op.inputs ELSE op.batch

\* C6: forward, and xentropy through it, called with source_lengths that are
\* not non-increasing raises an assertion error having called neither the
\* encoder nor the decoder (so nothing was reordered or encoded); called with
\* non-increasing lengths (equal neighbours, a single example) it raises no
\* assertion error and hands the encoder the batch in the caller's order.
C6_ForwardAssertsSorted ==
    IsTrainCall =>
        LET lengths == TrainInputs.source_lengths
        IN  IF \E j \in 1 .. (Len(lengths) - 1) : lengths[j] < lengths[j + 1]
            THEN /\ ret.raised = "AssertionError"
                 /\ calls = <<>>
            ELSE /\ ret.raised # "AssertionError"
                 /\ Len(calls) = 2
                 /\ calls[1].fn = "encoder"
                 /\ calls[1].args =
                        <<TrainInputs.source_features, lengths>>

\* C6 witness: forward refuses a batch of three whose lengths rise.
C6_Witness ==
    /\ IsForwardCall
    /\ Len(op.inputs.source_lengths) = 3
    /\ op.inputs.source_lengths[2] < op.inputs.source_lengths[3]
    /\ ret.raised = "AssertionError"
    /\ calls = <<>>

\* C6 second witness: equal neighbours pass the assertion.
C6_WitnessEqual ==
    /\ IsForwardCall
    /\ Len(op.inputs.source_lengths) = 3
    /\ op.inputs.source_lengths[1] = op.inputs.source_lengths[2]
    /\ ret.raised = "None"

\* C8: forward with multi_ref set hands the decoder a batch of
\* m = len(target_source_ids) whose j-th context, j-th state entry of every
\* layer and j-th mask row are those of encoded source target_source_ids[j];
\* an absent source_mask is passed as no mask; with multi_ref absent or false
\* the encoder's context and state and the caller's mask arrive unchanged.
C8_MultiRefRemap ==
    (IsForwardCall /\ ret.raised = "None") =>
        LET inputs == op.inputs
            enc == calls[1].result
            context == calls[2].args[2]
            state == calls[2].args[3]
            mask == calls[2].args[4]
        IN  /\ calls[2].fn = "decoder"
            /\ calls[2].args[1] = inputs.target_input_features
            /\ IF "multi_ref" \in DOMAIN inputs /\ inputs.multi_ref
               THEN LET ids == inputs.target_source_ids
                        m == Len(ids)
                    IN  /\ Len(context) = m
                        /\ Len(state) = Len(enc[2])
                        /\ \A layer \in 1 .. Len(state) : Len(state[layer]) = m
                        /\ \A j \in Range(m) :
                            /\ At(context, j) = OwnContext(inputs, At(ids, j))
                            /\ \A layer \in 1 .. Len(state) :
                                   At(state[layer], j) =
                                       At(enc[2][layer], At(ids, j))
                        /\ IF "source_mask" \in DOMAIN inputs
                           THEN /\ ~mask.is_none
                                /\ Len(mask.value) = m
                                /\ \A j \in Range(m) :
                                       At(mask.value, j) =
                                           At(inputs.source_mask, At(ids, j))
                           ELSE mask = None
               ELSE /\ context = enc[1]
                    /\ state = enc[2]
                    /\ mask = IF "source_mask" \in DOMAIN inputs
                              THEN Some(inputs.source_mask)
                              ELSE None

\* C8 witness: two sources, target_source_ids = [0, 0, 1], a mask: the
\* decoder gets source 0 twice, then source 1, which differs from source 0.
C8_Witness ==
    /\ IsForwardCall /\ ret.raised = "None"
    /\ "multi_ref" \in DOMAIN op.inputs /\ op.inputs.multi_ref
    /\ "source_mask" \in DOMAIN op.inputs
    /\ Len(op.inputs.source_lengths) = 2
    /\ op.inputs.target_source_ids = <<0, 0, 1>>
    /\ calls[2].args[2] = <<OwnContext(op.inputs, 0), OwnContext(op.inputs, 0),
                            OwnContext(op.inputs, 1)>>
    /\ OwnContext(op.inputs, 0) # OwnContext(op.inputs, 1)
    /\ calls[2].args[4].value[2] # calls[2].args[4].value[3]

(* The loss xentropy returned, beside the state when return_state is set.   *)
LossValue == IF op.return_state THEN ret.value[1] ELSE ret.value

(* The gold tokens of the batch, batch x steps.                             *)
Gold == Transpose(op.batch.target_output_features.tokens)

(* What reduction="none" returns on the batch of the call.                   *)
NoneLoss == xentropy(op.batch, "none", FALSE, op.dec).ret.value

ValidPositions ==
    {<<b, s>> \in (1 .. Len(Gold)) \X (1 .. MaxSteps) : Gold[b][s] # pad_index}

(* Equality of two floats kept as fractions (a zero denominator is no       *)
(* number: such a quotient equals only the same quotient).                  *)
SameQuotient(x, y) ==
    IF x.den # 0 /\ y.den # 0
    THEN x.num * y.den = y.num * x.den
    ELSE x = y

\* C5 as stated: for every batch forward accepts, the "sum" loss is the sum
\* of the "none" losses, and the "mean" loss is that sum divided by the
\* number of gold target tokens that are not the pad index (read for the
\* batches that have such a token, where the quotient is a number).
C5_MeanOverNonPad ==
    (IsXentropyCall /\ AssertSorted(op.batch.source_lengths)) =>
        /\ op.reduction = "sum" => LossValue = SumAll(NoneLoss)
        /\ (op.reduction = "mean" /\ ValidPositions # {}) =>
               SameQuotient(LossValue,
                            Divide(SumAll(NoneLoss), Cardinality(ValidPositions)))

TargetLengthsCountNonPad ==
    \A b \in 1 .. Len(Gold) : op.batch.target_lengths[b] = NonPadCount(Gold[b])

\* C5 amended: the "sum" loss is the sum of the "none" losses, and the "mean"
\* loss is that sum divided by the sum of batch["target_lengths"]; this is
\* the number of non-pad gold tokens whenever target_lengths holds, for every
\* example, the number of its non-pad gold tokens.
C5_MeanOverTargetLengths ==
    (IsXentropyCall /\ AssertSorted(op.batch.source_lengths)) =>
        /\ op.reduction = "sum" =>
               ret.raised = "None" /\ LossValue = SumAll(NoneLoss)
        /\ op.reduction = "mean" =>
            /\ ret.raised = "None"
            /\ SameQuotient(LossValue,
                            Divide(SumAll(NoneLoss),
                                   SumSeq(op.batch.target_lengths)))
            /\ TargetLengthsCountNonPad =>
                   SameQuotient(LossValue,
                                Divide(SumAll(NoneLoss),
                                       Cardinality(ValidPositions)))

\* C5 witness: a "mean" loss over three examples with some padding, a
\* non-zero sum, and a token count that is neither the number of examples
\* nor the number of logit positions.
C5_Witness ==
    /\ IsXentropyCall /\ op.reduction = "mean" /\ ret.raised = "None"
    /\ Len(Gold) = 3
    /\ TargetLengthsCountNonPad
    /\ LossValue.num > 0
    /\ LossValue.den = Cardinality(ValidPositions)
    /\ LossValue.den \notin {3, 3 * MaxSteps}

ValidReductions == {"mean", "sum", "none"}

\* C9: on a batch forward accepts, xentropy with a reduction other than
\* "mean", "sum" or "none" raises the error naming the three modes; whatever
\* the batch, it then returns no value, return_state set or not; with one of
\* the three modes it never raises that error.
C9_UnknownReductionRaises ==
    IsXentropyCall =>
        IF op.reduction \notin ValidReductions
        THEN /\ ret.raised # "None"
             /\ AssertSorted(op.batch.source_lengths) =>
                    ret = Raised("Exception",
                                 "reduction must be 'mean', 'sum', or 'none'.")
        ELSE ret.raised # "Exception"

\* C9 witness: reduction "avg" with return_state set raises the error.
C9_Witness ==
    /\ IsXentropyCall /\ op.reduction = "avg" /\ op.return_state
    /\ ret.raised = "Exception"
    /\ Len(calls) = 2

\* C10: the "none" loss has one value per example and step, zero wherever
\* the gold token is the pad index; the "sum" loss and the numerator of the
\* "mean" loss are the losses of the non-pad positions alone, whatever the
\* logits at the pad positions.
C10_PadMasked ==
    (IsXentropyCall /\ ret.raised = "None") =>
        LET logits == calls[2].result[1]
            valid_sum ==
                SumAll([b \in 1 .. Len(Gold) |->
                           [s \in 1 .. MaxSteps |->
                               IF <<b, s>> \in ValidPositions
                               THEN NegLogLikelihood(logits[b][s], Gold[b][s])
                               ELSE 0]])
        IN  /\ op.reduction = "none" =>
                /\ Len(LossValue) = Len(Gold)
                /\ \A b \in 1 .. Len(Gold) :
                    /\ Len(LossValue[b]) = MaxSteps
                    /\ \A s \in 1 .. MaxSteps :
                           Gold[b][s] = pad_index => LossValue[b][s] = 0
            /\ op.reduction = "sum" => LossValue = valid_sum
            /\ op.reduction = "mean" => LossValue.num = valid_sum

\* C10 witness: a "none" loss with a pad position whose logits alone would
\* cost something, and a non-pad position that does cost something.
C10_Witness ==
    /\ IsXentropyCall /\ op.reduction = "none" /\ ret.raised = "None"
    /\ \E b \in 1 .. Len(Gold) : \E s, u \in 1 .. MaxSteps :
        /\ Gold[b][s] = pad_index
        /\ NegLogLikelihood(calls[2].result[1][b][s], pad_index) > 0
        /\ LossValue[b][s] = 0
        /\ Gold[b][u] # pad_index
        /\ LossValue[b][u] > 0

====
